---- MODULE Spec2Model ----
(***************************************************************************)
(* Model of the Python Node Editor (src/main.py, src/node.py,              *)
(* src/connection.py): the node list, the ports' connection collections,   *)
(* the connection drag of NodeCanvas, and the execution pass of            *)
(* MainWindow.execute_graph with NodeItem.execute_code.                    *)
(*                                                                         *)
(* Conventions.  A node is an identifier of NodeIds; the identifier of an  *)
(* object that nothing references any more is free for the next object.    *)
(* Every node has exactly one input port and one output port               *)
(* (NodeItem.__init__), so a port is the pair of its node and its          *)
(* direction.  Python's None is the empty tuple, a value v is <<v>>.       *)
(* Node code is one of a few representative code strings (CodeKinds);      *)
(* the exceptions they raise are subclasses of Exception, and the modules  *)
(* execute_code imports are installed.                                     *)
(***************************************************************************)
EXTENDS Integers, Sequences, FiniteSets, TLC

\* Bounds of the model: live node objects, live connection objects.
MaxNodes == 4
MaxConns == 4
\* Bounds on the user: nodes in the list when a node is added from the
\* toolbar, connections alive when a drag starts (MaxDragged where the user
\* only wires, MaxWired elsewhere), code strings edited, passes triggered,
\* right-click deletions, files saved / loaded / merged, copies / pastes.
MaxListed == 3
MaxDragged == 3
MaxWired == 2
MaxCodeEdits == 1
MaxPasses == 2
MaxDeletes == 1
MaxFileOps == 1
MaxClipOps == 1

NodeIds == 1..MaxNodes
ConnIds == 1..MaxConns

None == <<>>
Some(v) == <<v>>

\* Representative code strings of a node's editor.
\*   const42 : def process(input=None): return 42
\*   double  : def process(input=None): return input * 2 if input else 0
\*   ident   : def process(input=None): return input      (viewer default)
\*   first   : def process(*args): return args[0]
\*   times2  : def process(input): return input * 2       (editor default)
\*   raise   : def process(input=None): raise ValueError()
\*   noproc  : x = 1                     (no function named process)
\*   syntax  : def process(:             (exec of the code string raises)
CodeKinds == {"const42", "double", "ident", "first", "times2", "raise", "noproc", "syntax"}

\* A code string whose first line holds an HTML tag, and the text the editor
\* holds after QTextEdit.setText was given that string: setText takes it for
\* rich text, so toPlainText returns the rendered text, one line that starts
\* with the comment sign.
\*   markup   : # <b>twice</b>  /  def process(input): return input * 2
\*   rendered : # twice def process(input): return input * 2
Markup == "markup"
Rendered == "rendered"

Ports == [node : NodeIds, is_output : BOOLEAN]
NoPort == [node |-> 0, is_output |-> FALSE]
InputPort(n) == [node |-> n, is_output |-> FALSE]
OutputPort(n) == [node |-> n, is_output |-> TRUE]
NoConn == [start_port |-> NoPort, end_port |-> NoPort]
NoFile == [nodes |-> <<>>, connections |-> <<>>, written |-> FALSE]

VARIABLES
    nodes,            \* MainWindow.nodes: the node list, in insertion order
    title,            \* NodeItem.title: <<"Node", N>> or <<"Viewer", N>>
    code,             \* the code string of the node's editor
    viewer,           \* TRUE for a ViewerNodeItem
    result,           \* NodeItem.result
    display,          \* ViewerNodeItem.data_display text
    pos,              \* NodeItem.pos()
    conns,            \* ConnectionItem.start_port / end_port per connection
    portConns,        \* PortItem.connections, an ordered list per port
    sceneConns,       \* the connection items currently in the QGraphicsScene
    temp_connection,  \* NodeCanvas.temp_connection (0 for None)
    start_port,       \* NodeCanvas.start_port (NoPort for None)
    python_path,      \* MainWindow.python_path is a non-empty string
    pc,               \* idle, or how execute_graph just ended: done, cancelled,
                      \* raised
    executed,         \* local set `executed` of execute_graph at its end
    scan,             \* number of scans of the while loop the pass made
    evalSeq,          \* the calls of execute_code the pass made, in order
    log,              \* console entries the pass appended
    hadResult,        \* the nodes whose result was not None when the pass began
    last,             \* outcome of the last handler that ran
    copied_nodes,     \* NodeCanvas.copied_nodes
    file,             \* the content of the JSON file last written by save_graph
    opened,           \* the content of the file last read by a load or a merge
    auto_execute,     \* auto_execute_action.isChecked()
    timer_active,     \* execute_timer.isActive()
    timer_interval,   \* execute_timer.interval(), in ms
    execute_interval, \* MainWindow.execute_interval, in ms
    codeEdits,        \* environment: code strings edited so far
    passes,           \* environment: passes triggered so far
    deletes,          \* environment: right-click deletions so far
    fileOps,          \* environment: loads and merges so far
    clipOps           \* environment: pastes so far

vars == <<nodes, title, code, viewer, result, display, pos, conns, portConns,
          sceneConns, temp_connection, start_port, python_path, pc, executed,
          scan, evalSeq, log, hadResult, last, copied_nodes, file, opened,
          auto_execute, timer_active, timer_interval, execute_interval,
          codeEdits, passes, deletes, fileOps, clipOps>>

graphVars == <<nodes, title, code, viewer, pos, conns, portConns, sceneConns,
               temp_connection, start_port>>
passVars == <<pc, executed, scan, evalSeq, log, hadResult>>
storeVars == <<copied_nodes, file, opened>>
timerVars == <<auto_execute, timer_active, timer_interval, execute_interval>>
envVars == <<codeEdits, passes, deletes, fileOps, clipOps>>

----------------------------------------------------------------------------
\* Helpers over sequences and the object graph.

Range(s) == {s[i] : i \in 1..Len(s)}

RECURSIVE RemoveFirst(_, _)
RemoveFirst(s, x) ==
    IF s = <<>> THEN <<>>
    ELSE IF Head(s) = x THEN Tail(s)
    ELSE <<Head(s)>> \o RemoveFirst(Tail(s), x)

\* The node a port belongs to (PortItem.parentItem()).
parentItem(p) == p.node

Min(S) == CHOOSE x \in S : \A y \in S : x <= y

\* Values of a node's fields right after NodeItem.__init__ (the editor's
\* default code string is "def process(input): return input * 2").
DefaultTitle == <<"", 0>>
DefaultCode == "times2"
DisplayYet == <<"No data received yet">>
DisplayNone == <<"No data received">>
DisplayData(v) == <<"Data: ", v>>

\* A position: scene coordinates (org "scene"), or the scene point under a
\* viewport point given relative to the viewport's right edge (org "view").
ScenePos(x, y) == [org |-> "scene", x |-> x, y |-> y]
DefaultPos == ScenePos(0, 0)

\* The connections held by the ports of the nodes of `live`.
HeldBy(live, pcn) == UNION {Range(pcn[p]) : p \in {q \in Ports : q.node \in live}}

\* The node objects reachable from the node list, the scene and the canvas:
\* a connection references its two ports, a port its node and its connections.
RECURSIVE Reach(_, _, _, _)
Reach(live, cn, pcn, roots) ==
    LET held == HeldBy(live, pcn) \cup roots
        next == (live \cup {cn[c].start_port.node : c \in held}
                      \cup {cn[c].end_port.node : c \in held}) \ {0}
    IN  IF next = live THEN live ELSE Reach(next, cn, pcn, roots)

LiveNodes == Reach(Range(nodes), conns, portConns, sceneConns \cup ({temp_connection} \ {0}))
LiveConns == HeldBy(LiveNodes, portConns) \cup sceneConns \cup ({temp_connection} \ {0})
FreeNodes == NodeIds \ LiveNodes
FreeConns == ConnIds \ LiveConns

\* Connections held by the collection of a port of a node of the node list.
Registered == HeldBy(Range(nodes), portConns)

\* Every connection held by a port of a listed node joins listed nodes.
Intact ==
    \A c \in Registered :
        conns[c].start_port.node \in Range(nodes) /\ conns[c].end_port.node \in Range(nodes)

\* The next state of the object graph.  Objects that nothing references any
\* more are dropped: their fields return to the constructor's values, so that
\* the identifier can stand for the next object created.
Collect(ns, tl, cd, vw, rs, dp, ps, cn, pcn, sc, tmp, sp) ==
    LET liveN == Reach(Range(ns), cn, pcn, sc \cup ({tmp} \ {0}))
        liveC == HeldBy(liveN, pcn) \cup sc \cup ({tmp} \ {0})
    IN  /\ nodes' = ns
        /\ title' = [n \in NodeIds |-> IF n \in liveN THEN tl[n] ELSE DefaultTitle]
        /\ code' = [n \in NodeIds |-> IF n \in liveN THEN cd[n] ELSE DefaultCode]
        /\ viewer' = [n \in NodeIds |-> IF n \in liveN THEN vw[n] ELSE FALSE]
        /\ result' = [n \in NodeIds |-> IF n \in liveN THEN rs[n] ELSE None]
        /\ display' = [n \in NodeIds |-> IF n \in liveN THEN dp[n] ELSE None]
        /\ pos' = [n \in NodeIds |-> IF n \in liveN THEN ps[n] ELSE DefaultPos]
        /\ conns' = [c \in ConnIds |-> IF c \in liveC THEN cn[c] ELSE NoConn]
        /\ portConns' = [p \in Ports |-> IF p.node \in liveN THEN pcn[p] ELSE <<>>]
        /\ sceneConns' = sc
        /\ temp_connection' = tmp
        /\ start_port' = sp

----------------------------------------------------------------------------
\* NodeItem.execute_code and ViewerNodeItem.execute_code.  `res` is the
\* results of the nodes at the moment of the call.

\* The node on the other end of connection c as seen from `port`.
SourceNode(c, port) ==
    IF conns[c].start_port # port
    THEN parentItem(conns[c].start_port)
    ELSE parentItem(conns[c].end_port)

\* The nodes on the other end of the connections of n's input port, in the
\* order of the port's collection.
RECURSIVE SourcesOf(_, _)
SourcesOf(cs, port) ==
    IF cs = <<>> THEN <<>>
    ELSE <<SourceNode(Head(cs), port)>> \o SourcesOf(Tail(cs), port)

Sources(n) == SourcesOf(portConns[InputPort(n)], InputPort(n))

\* A collection that does not test for None.
NonNoneResults_keepNone(srcs, res) == [i \in 1..Len(srcs) |-> res[srcs[i]]]

\* if source_node.result is not None: inputs.append(source_node.result)
RECURSIVE NonNoneResults(_, _)
NonNoneResults(srcs, res) ==
    IF srcs = <<>> THEN <<>>
    ELSE (IF res[Head(srcs)] # None THEN <<res[Head(srcs)]>> ELSE <<>>)
         \o NonNoneResults(Tail(srcs), res)

\* `inputs` of execute_code: every input port in order (a node has one).
CollectInputs(n, res) == NonNoneResults(Sources(n), res)

\* A call that passes the first input only.
CallArgs_firstOnly(inputs) == IF inputs # <<>> THEN <<inputs[1]>> ELSE <<None>>

\* process(*inputs) if inputs else process(None)
CallArgs(inputs) == IF inputs # <<>> THEN inputs ELSE <<None>>

\* Calling the process function a code string defines with positional
\* arguments args: whether the call raises, and the value it returns.
Process(kind, args) ==
    LET a == args[1]
        TypeError == [raised |-> TRUE, ret |-> None]
        Return(v) == [raised |-> FALSE, ret |-> v]
    IN  CASE kind = "const42" -> IF Len(args) > 1 THEN TypeError ELSE Return(Some(42))
          [] kind = "double" ->
                IF Len(args) > 1 THEN TypeError
                ELSE IF a # None /\ a[1] # 0 THEN Return(Some(a[1] * 2))
                ELSE Return(Some(0))
          [] kind = "ident" -> IF Len(args) > 1 THEN TypeError ELSE Return(a)
          [] kind = "first" -> Return(a)
          [] kind = "times2" ->
                IF Len(args) > 1 \/ a = None THEN TypeError ELSE Return(Some(a[1] * 2))
          [] OTHER -> [raised |-> TRUE, ret |-> None]

\* An execute_code without the except clause.
ExceptionEscapes_uncaught(caught) == caught

\* except Exception as e: print(...); return None -- no exception leaves
\* execute_code.
ExceptionEscapes(caught) == FALSE

\* self.result after execute_code: assigned only when process returned.
ResultAfter(old, call) == IF call.raised THEN old ELSE call.ret

\* The representative string that runs like the code string k.
RunsLike(k) == IF k = Markup THEN "times2" ELSE IF k = Rendered THEN "noproc" ELSE k

\* CodeEditorWidget.set_code followed by get_code: the text the editor holds
\* after self.editor.setText(text).
setText(text) == IF text = Markup THEN Rendered ELSE text

\* NodeItem.execute_code on node n: the value returned (ret), the node's
\* result afterwards, whether process was called and with which arguments,
\* whether the except clause caught an exception, and whether an exception
\* left execute_code.
execute_code(n, res) ==
    LET args == CallArgs(CollectInputs(n, res))
        call == Process(RunsLike(code[n]), args)
    IN  IF RunsLike(code[n]) = "syntax"
        THEN [ret |-> None, result |-> res[n], called |-> FALSE, args |-> <<>>,
              caught |-> TRUE, raised |-> ExceptionEscapes(TRUE)]
        ELSE IF RunsLike(code[n]) = "noproc"
        THEN [ret |-> None, result |-> res[n], called |-> FALSE, args |-> <<>>,
              caught |-> FALSE, raised |-> FALSE]
        ELSE [ret |-> call.ret, result |-> ResultAfter(res[n], call),
              called |-> TRUE, args |-> args,
              caught |-> call.raised, raised |-> ExceptionEscapes(call.raised)]

\* ViewerNodeItem.execute_code: the display text for the value returned.
DisplayOf(ret) == IF ret # None THEN DisplayData(ret[1]) ELSE DisplayNone

----------------------------------------------------------------------------
\* MainWindow.execute_graph.  The pass runs to completion inside the handler;
\* st holds what it changes: the nodes' results and display texts, the local
\* set `executed` and flag `progress`, and the console entries; scan counts
\* the iterations of the while loop and evalSeq records the calls of
\* execute_code.

Entry(kind, t, v, e, tot) ==
    [kind |-> kind, title |-> t, val |-> v, executed |-> e, total |-> tot]

\* A scheduler that does not wait for the input nodes.
can_execute_always(n, ex) == TRUE

\* A scheduler that looks at the first connection of the input port only.
can_execute_first(n, ex) == Sources(n) = <<>> \/ Sources(n)[1] \in ex

\* A scheduler that does not wait for nodes that are not in the node list.
can_execute_listed(n, ex) ==
    \A i \in 1..Len(Sources(n)) : Sources(n)[i] \in ex \/ Sources(n)[i] \notin Range(nodes)

\* "all input nodes have been executed": the node on the other end of every
\* connection of every input port is in `executed`.
can_execute(n, ex) ==
    \A i \in 1..Len(Sources(n)) : Sources(n)[i] \in ex

\* A pass that does not reset the results.
ResetResults_skipped(res) == res

\* for node in self.nodes: node.result = None
ResetResults(res) == [n \in NodeIds |-> IF n \in Range(nodes) THEN None ELSE res[n]]

\* The readiness test of node n reads the far port of a connection whose
\* node has left the node list: every connection before it in the port's
\* collection has its node in `executed`, so the inner loop reaches it.
ReadsRemoved(n, ex) ==
    \E i \in 1..Len(Sources(n)) :
        /\ Sources(n)[i] \notin Range(nodes)
        /\ \A j \in 1..(i - 1) : Sources(n)[j] \in ex

\* Whether the objects of the nodes removed from the scene have been
\* destroyed when the pass reads them: it depends on the remaining references
\* to the removed node, and matters only when a listed node's input port
\* still holds a connection to such a node.
Lifetimes ==
    IF \E n \in Range(nodes) : \E i \in 1..Len(Sources(n)) : Sources(n)[i] \notin Range(nodes)
    THEN BOOLEAN
    ELSE {FALSE}

\* The body of `for node in self.nodes`.  st.gone tells whether the objects
\* of the nodes removed from the scene have been destroyed: parentItem() on
\* a port of such a node raises, outside any try block, and the exception
\* ends execute_graph (st.aborted).
ForBody(n, st) ==
    LET ec == execute_code(n, st.result)
        call == [node |-> n, args |-> ec.args, called |-> ec.called,
                 caught |-> ec.caught, raised |-> ec.raised, ret |-> ec.ret,
                 scan |-> st.scan]
    IN  IF st.aborted \/ n \in st.executed THEN st
        ELSE IF st.gone /\ ReadsRemoved(n, st.executed)
        THEN [st EXCEPT !.aborted = TRUE]
        ELSE IF ~can_execute(n, st.executed) THEN st
        ELSE IF ec.raised
        THEN [st EXCEPT !.result[n] = ec.result,
                        !.display[n] = IF viewer[n] THEN DisplayOf(ec.ret) ELSE @,
                        !.evalSeq = Append(@, call),
                        !.log = Append(@, Entry("error", title[n], None, 0, 0))]
        ELSE [st EXCEPT !.result[n] = ec.result,
                        !.display[n] = IF viewer[n] THEN DisplayOf(ec.ret) ELSE @,
                        !.evalSeq = Append(@, call),
                        !.log = Append(@, Entry("success", title[n], ec.ret, 0, 0)),
                        !.executed = @ \cup {n},
                        !.progress = TRUE]

\* A scan that visits the node list from its end.
RECURSIVE ForLoop_reversed(_, _)
ForLoop_reversed(i, st) ==
    IF i > Len(nodes) THEN st
    ELSE ForLoop_reversed(i + 1, ForBody(nodes[Len(nodes) + 1 - i], st))

RECURSIVE ForLoop(_, _)
ForLoop(i, st) ==
    IF i > Len(nodes) THEN st ELSE ForLoop(i + 1, ForBody(nodes[i], st))

\* A loop that ends after its first scan.
WhileLoop_once(st) ==
    IF ~st.aborted /\ st.progress /\ Cardinality(st.executed) < Len(nodes)
    THEN ForLoop(1, [st EXCEPT !.progress = FALSE, !.scan = @ + 1])
    ELSE st

\* while progress and len(executed) < len(self.nodes)
RECURSIVE WhileLoop(_)
WhileLoop(st) ==
    IF ~st.aborted /\ st.progress /\ Cardinality(st.executed) < Len(nodes)
    THEN WhileLoop(ForLoop(1, [st EXCEPT !.progress = FALSE, !.scan = @ + 1]))
    ELSE st

\* The scans and the loop of the pass over the node list ns, a rearrangement
\* of self.nodes.
RECURSIVE ForLoopOver(_, _, _)
ForLoopOver(ns, i, st) ==
    IF i > Len(ns) THEN st ELSE ForLoopOver(ns, i + 1, ForBody(ns[i], st))

RECURSIVE WhileLoopOver(_, _)
WhileLoopOver(ns, st) ==
    IF ~st.aborted /\ st.progress /\ Cardinality(st.executed) < Len(ns)
    THEN WhileLoopOver(ns, ForLoopOver(ns, 1, [st EXCEPT !.progress = FALSE, !.scan = @ + 1]))
    ELSE st

\* The set `executed` at the end of a pass over the node list ns.
ExecutedOver(ns) ==
    WhileLoopOver(ns, [result |-> ResetResults(result), display |-> display,
                       executed |-> {}, progress |-> TRUE, scan |-> 0,
                       evalSeq |-> <<>>, gone |-> FALSE, aborted |-> FALSE,
                       log |-> <<Entry("header", DefaultTitle, None, 0, 0)>>]).executed

\* A summary whose total is the number of calls of execute_code.
Summary_calls(st) ==
    Entry("summary", DefaultTitle, None, Cardinality(st.executed), Len(st.evalSeq))

\* The summary entry "Execution complete. e/t nodes executed."
Summary(st) ==
    Entry("summary", DefaultTitle, None, Cardinality(st.executed), Len(nodes))

\* The pass from the reset to the summary, started with the results res and
\* the display texts dp; the summary is not reached when the loop raised.
PassWith(res, dp, gone) ==
    LET st0 == [result |-> ResetResults(res), display |-> dp,
                executed |-> {}, progress |-> TRUE, scan |-> 0, evalSeq |-> <<>>,
                gone |-> gone, aborted |-> FALSE,
                log |-> <<Entry("header", DefaultTitle, None, 0, 0)>>]
        st1 == WhileLoop(st0)
    IN  IF st1.aborted THEN st1 ELSE [st1 EXCEPT !.log = Append(@, Summary(st1))]

\* The pass in which every object it reads is alive.
PassFrom(res, dp) == PassWith(res, dp, FALSE)

RunPass == PassFrom(result, display)

\* execute_graph, triggered by the Execute action or by the auto-run timer.
\* With an empty Python path the user is asked: "no" cancels the pass, "yes"
\* opens set_python_path, where the user enters a path or dismisses the
\* dialog; in both cases the pass goes on.  The pass ends at its summary
\* ("done") or with the exception of a destroyed object ("raised").
execute_graph(answer) ==
    /\ pc = "idle"
    /\ IF ~python_path /\ answer = "no"
       THEN /\ log' = <<Entry("header", DefaultTitle, None, 0, 0),
                        Entry("cancelled", DefaultTitle, None, 0, 0)>>
            /\ pc' = "cancelled"
            /\ UNCHANGED <<result, display, python_path, executed, scan, evalSeq,
                           hadResult>>
       ELSE \E gone \in Lifetimes :
                LET run == PassWith(result, display, gone)
                IN  /\ python_path' = (python_path \/ answer = "yes_set")
                    /\ result' = run.result
                    /\ display' = run.display
                    /\ executed' = run.executed
                    /\ scan' = run.scan
                    /\ evalSeq' = run.evalSeq
                    /\ log' = run.log
                    /\ hadResult' = {n \in Range(nodes) : result[n] # None}
                    /\ pc' = IF run.aborted THEN "raised" ELSE "done"
    /\ last' = "execute_graph"
    /\ UNCHANGED <<graphVars, storeVars, timerVars>>

\* execute_graph has returned to the event loop: its locals are gone.
ExecuteGraphReturn ==
    /\ pc \in {"done", "cancelled", "raised"}
    /\ pc' = "idle"
    /\ executed' = {}
    /\ scan' = 0
    /\ evalSeq' = <<>>
    /\ log' = <<>>
    /\ hadResult' = {}
    /\ UNCHANGED <<graphVars, storeVars, timerVars, result, display, python_path, last>>

----------------------------------------------------------------------------
\* Editing the graph: MainWindow.add_node, add_viewer_node, the code editor,
\* and the mouse handlers of NodeCanvas.  A handler runs only while no pass
\* is running (one control thread); it leaves the pass and the auto-run timer
\* alone.

Idle == pc = "idle"
PassUnchanged == UNCHANGED <<python_path, passVars, timerVars>>
StoreUnchanged == UNCHANGED storeVars

\* MainWindow.add_node
add_node ==
    /\ Idle
    /\ FreeNodes # {}
    /\ LET n == Min(FreeNodes)
       IN  Collect(Append(nodes, n),
                   [title EXCEPT ![n] = <<"Node", Len(nodes) + 1>>],
                   [code EXCEPT ![n] = DefaultCode],
                   [viewer EXCEPT ![n] = FALSE],
                   [result EXCEPT ![n] = None],
                   [display EXCEPT ![n] = None],
                   [pos EXCEPT ![n] = ScenePos(100 + Len(nodes) * 80,
                                               100 + Len(nodes) * 60)],
                   conns, portConns, sceneConns, temp_connection, start_port)
    /\ last' = "add_node"
    /\ PassUnchanged
    /\ StoreUnchanged

\* MainWindow.add_viewer_node
add_viewer_node ==
    /\ Idle
    /\ FreeNodes # {}
    /\ LET n == Min(FreeNodes)
           viewers == {i \in 1..Len(nodes) : viewer[nodes[i]]}
       IN  Collect(Append(nodes, n),
                   [title EXCEPT ![n] = <<"Viewer", Cardinality(viewers) + 1>>],
                   [code EXCEPT ![n] = "ident"],
                   [viewer EXCEPT ![n] = TRUE],
                   [result EXCEPT ![n] = None],
                   [display EXCEPT ![n] = DisplayYet],
                   [pos EXCEPT ![n] = [org |-> "view", x |-> -250,
                                       y |-> 100 + Len(nodes) * 60]],
                   conns, portConns, sceneConns, temp_connection, start_port)
    /\ last' = "add_viewer_node"
    /\ PassUnchanged
    /\ StoreUnchanged

\* The user replaces the code string in a node's editor.
set_code(n, k) ==
    /\ Idle
    /\ n \in Range(nodes)
    /\ k # code[n]
    /\ code' = [code EXCEPT ![n] = k]
    /\ last' = "set_code"
    /\ UNCHANGED <<nodes, title, viewer, result, display, pos, conns, portConns,
                   sceneConns, temp_connection, start_port>>
    /\ PassUnchanged
    /\ StoreUnchanged

\* PortItem.add_connection
add_connection(cs, c) == IF c \in Range(cs) THEN cs ELSE Append(cs, c)

\* PortItem.remove_connection
remove_connection(cs, c) == IF c \in Range(cs) THEN RemoveFirst(cs, c) ELSE cs

\* A press that also registers the pending connection with the port.
MousePressPort_registered(p) ==
    /\ Idle
    /\ p.node \in Range(nodes)
    /\ IF temp_connection = 0 THEN TRUE ELSE conns[temp_connection].end_port # NoPort
    /\ FreeConns # {}
    /\ LET c == Min(FreeConns)
       IN  Collect(nodes, title, code, viewer, result, display, pos,
                   [conns EXCEPT ![c] = [start_port |-> p, end_port |-> NoPort]],
                   [portConns EXCEPT ![p] = Append(@, c)], sceneConns \cup {c}, c, p)
    /\ last' = "press_port"
    /\ PassUnchanged
    /\ StoreUnchanged

\* NodeCanvas.mousePressEvent, left button on a port: a pending connection
\* starts at the port.  The button is up: no drag is pending, or the release
\* that ended the drag raised and left its connection behind in the scene.
MousePressPort(p) ==
    /\ Idle
    /\ p.node \in Range(nodes)
    /\ IF temp_connection = 0 THEN TRUE ELSE conns[temp_connection].end_port # NoPort
    /\ FreeConns # {}
    /\ LET c == Min(FreeConns)
       IN  Collect(nodes, title, code, viewer, result, display, pos,
                   [conns EXCEPT ![c] = [start_port |-> p, end_port |-> NoPort]],
                   portConns, sceneConns \cup {c}, c, p)
    /\ last' = "press_port"
    /\ PassUnchanged
    /\ StoreUnchanged

\* A release that does not compare the directions.
ValidDirection_any(sp, item) == TRUE

\* "prevent output-to-output or input-to-input"
ValidDirection(sp, item) == sp.is_output # item.is_output

\* NodeCanvas.mouseReleaseEvent, left button, while a connection is pending:
\* released on a port (item is the port) or anywhere else (item is NoPort).
\* When the node of the start port was deleted during the drag, the canvas
\* still refers to the port: either the port object is still alive and the
\* connection is completed, or it was destroyed with its node and
\* set_end_port raises RuntimeError in update_path after it has assigned
\* end_port, which ends the handler.
MouseRelease(item) ==
    /\ Idle
    /\ temp_connection # 0
    /\ item = NoPort \/ (item \in Ports /\ item.node \in Range(nodes))
    /\ LET c == temp_connection
       IN  IF item # NoPort /\ item # start_port
           THEN IF ValidDirection(start_port, item)
                THEN \/ /\ Collect(nodes, title, code, viewer, result, display, pos,
                                   [conns EXCEPT ![c].end_port = item],
                                   [portConns EXCEPT
                                       ![start_port] = add_connection(@, c),
                                       ![item] = add_connection(@, c)],
                                   sceneConns, 0, NoPort)
                        /\ last' = "connection_created"
                     \/ /\ start_port.node \notin Range(nodes)
                        /\ Collect(nodes, title, code, viewer, result, display, pos,
                                   [conns EXCEPT ![c].end_port = item],
                                   portConns, sceneConns, temp_connection, start_port)
                        /\ last' = "release_raised"
                ELSE /\ Collect(nodes, title, code, viewer, result, display, pos,
                                conns, portConns, sceneConns \ {c}, 0, NoPort)
                     /\ last' = "invalid_connection"
           ELSE /\ Collect(nodes, title, code, viewer, result, display, pos,
                           conns, portConns, sceneConns \ {c}, 0, NoPort)
                /\ last' = "release_elsewhere"
    /\ PassUnchanged
    /\ StoreUnchanged

\* A deletion that leaves the collections of the other ports alone.
Cascade_none(cs, port, pcn) == pcn

\* The cascade of a node deletion over the connections cs of `port`: each is
\* removed from the collection of the port on its other end.
RECURSIVE Cascade(_, _, _)
Cascade(cs, port, pcn) ==
    IF cs = <<>> THEN pcn
    ELSE LET c == Head(cs)
             peer == IF conns[c].start_port # port
                     THEN conns[c].start_port
                     ELSE conns[c].end_port
         IN  Cascade(Tail(cs), port,
                     [pcn EXCEPT ![peer] = remove_connection(@, c)])

\* NodeCanvas.mousePressEvent, right button on a node: the node leaves the
\* scene and the node list, its connections leave the scene and the
\* collections of the ports on their other end.
MousePressRightNode(n) ==
    /\ Idle
    /\ n \in Range(nodes)
    /\ LET pcn1 == Cascade(portConns[InputPort(n)], InputPort(n), portConns)
           gone1 == Range(portConns[InputPort(n)])
           pcn2 == Cascade(pcn1[OutputPort(n)], OutputPort(n), pcn1)
           gone2 == Range(pcn1[OutputPort(n)])
       IN  Collect(SelectSeq(nodes, LAMBDA m : m # n),
                   title, code, viewer, result, display, pos, conns, pcn2,
                   sceneConns \ (gone1 \cup gone2), temp_connection, start_port)
           /\ last' = IF gone1 \cup gone2 = {} THEN "delete_node"
                      ELSE "delete_node_cascade"
    /\ PassUnchanged
    /\ StoreUnchanged

\* NodeCanvas.mousePressEvent, right button on a connection item.
MousePressRightConnection(c) ==
    /\ Idle
    /\ c \in sceneConns
    /\ LET pcn1 == IF conns[c].start_port # NoPort
                   THEN [portConns EXCEPT ![conns[c].start_port] = remove_connection(@, c)]
                   ELSE portConns
           pcn2 == IF conns[c].end_port # NoPort
                   THEN [pcn1 EXCEPT ![conns[c].end_port] = remove_connection(@, c)]
                   ELSE pcn1
       IN  Collect(nodes, title, code, viewer, result, display, pos, conns, pcn2,
                   sceneConns \ {c}, temp_connection, start_port)
    /\ last' = "delete_connection"
    /\ PassUnchanged
    /\ StoreUnchanged

----------------------------------------------------------------------------
\* Saving, loading and merging.  A file holds node records and connection
\* records; `fault` marks a record the program did not write: "field" is a
\* node record without title, position or code, "id" a node record without
\* id, "key" a connection record without start_node_id.  The fields
\* input_ports, output_ports of a node record and id of a connection record
\* are written and never read; they are left out.

\* NodeItem.to_dict, ViewerNodeItem.to_dict
to_dict(n) ==
    [id |-> n, title |-> title[n], pos_org |-> pos[n].org, pos_x |-> pos[n].x,
     pos_y |-> pos[n].y, code |-> code[n],
     node_type |-> IF viewer[n] THEN "viewer" ELSE "", fault |-> "none"]

\* ConnectionItem.to_dict: a one-element list with the record, or the empty
\* list for None (a connection without start port or end port).
conn_to_dict(c) ==
    IF conns[c].start_port = NoPort \/ conns[c].end_port = NoPort THEN <<>>
    ELSE << [start_node_id |-> parentItem(conns[c].start_port),
             start_port_index |-> 0,
             start_port_is_output |-> conns[c].start_port.is_output,
             end_node_id |-> parentItem(conns[c].end_port),
             end_port_index |-> 0,
             end_port_is_output |-> conns[c].end_port.is_output,
             fault |-> "none"] >>

\* for connection in port.connections: if port == connection.start_port
RECURSIVE SerializePort(_, _)
SerializePort(cs, port) ==
    IF cs = <<>> THEN <<>>
    ELSE (IF conns[Head(cs)].start_port = port THEN conn_to_dict(Head(cs)) ELSE <<>>)
         \o SerializePort(Tail(cs), port)

\* for node in self.nodes: for port in node.inputs + node.outputs
RECURSIVE SerializeConnections(_)
SerializeConnections(i) ==
    IF i > Len(nodes) THEN <<>>
    ELSE SerializePort(portConns[InputPort(nodes[i])], InputPort(nodes[i]))
         \o SerializePort(portConns[OutputPort(nodes[i])], OutputPort(nodes[i]))
         \o SerializeConnections(i + 1)

\* MainWindow.serialize_graph
serialize_graph ==
    [nodes |-> [i \in 1..Len(nodes) |-> to_dict(nodes[i])],
     connections |-> SerializeConnections(1),
     written |-> TRUE]

\* MainWindow.save_graph with a file path chosen.
save_graph ==
    /\ Idle
    /\ file' = serialize_graph
    /\ last' = "save_graph"
    /\ UNCHANGED <<graphVars, result, display, copied_nodes, opened>>
    /\ PassUnchanged

\* The graph while a file is decoded: the object graph, the dictionary from
\* the ids of the file to the new nodes (0: no entry), and whether an
\* exception was raised.
GraphNow ==
    [nodes |-> nodes, title |-> title, code |-> code, viewer |-> viewer,
     result |-> result, display |-> display, pos |-> pos, conns |-> conns,
     portConns |-> portConns, sceneConns |-> sceneConns,
     dict |-> [i \in NodeIds |-> 0], raised |-> FALSE]

\* MainWindow.clear_graph: scene.clear(), nodes.clear()
clear_graph ==
    [nodes |-> <<>>,
     title |-> [n \in NodeIds |-> DefaultTitle],
     code |-> [n \in NodeIds |-> DefaultCode],
     viewer |-> [n \in NodeIds |-> FALSE],
     result |-> [n \in NodeIds |-> None],
     display |-> [n \in NodeIds |-> None],
     pos |-> [n \in NodeIds |-> DefaultPos],
     conns |-> [c \in ConnIds |-> NoConn],
     portConns |-> [p \in Ports |-> <<>>],
     sceneConns |-> {},
     dict |-> [i \in NodeIds |-> 0], raised |-> FALSE]

FreeNodesIn(g) ==
    NodeIds \ Reach(Range(g.nodes), g.conns, g.portConns,
                    g.sceneConns \cup ({temp_connection} \ {0}))
FreeConnsIn(g) ==
    ConnIds \ (HeldBy(NodeIds \ FreeNodesIn(g), g.portConns)
               \cup g.sceneConns \cup ({temp_connection} \ {0}))

\* NodeItem.from_dict / ViewerNodeItem.from_dict followed by
\* self.nodes.append(node); the merge adds `shift` to both coordinates.
CreateNode(g, rec, shift) ==
    LET n == Min(FreeNodesIn(g))
        isViewer == rec.node_type = "viewer"
    IN  [g EXCEPT !.nodes = Append(@, n),
                  !.title[n] = rec.title,
                  !.code[n] = setText(rec.code),
                  !.viewer[n] = isViewer,
                  !.result[n] = None,
                  !.display[n] = IF isViewer THEN DisplayYet ELSE None,
                  !.pos[n] = [org |-> rec.pos_org, x |-> rec.pos_x + shift,
                              y |-> rec.pos_y + shift]]

\* for node_data in data['nodes']: a record without title, position or code
\* raises KeyError before the node is added, a record without id after it.
RECURSIVE DecodeNodes(_, _, _, _)
DecodeNodes(g, recs, shift, i) ==
    IF i > Len(recs) \/ g.raised THEN g
    ELSE IF recs[i].fault = "field" THEN [g EXCEPT !.raised = TRUE]
    ELSE IF recs[i].fault = "id" THEN [CreateNode(g, recs[i], shift) EXCEPT !.raised = TRUE]
    ELSE LET g1 == CreateNode(g, recs[i], shift)
         IN  DecodeNodes([g1 EXCEPT !.dict[recs[i].id] = g1.nodes[Len(g1.nodes)]],
                         recs, shift, i + 1)

\* A connection registered with its start port only.
CreateConnection_start(g, rec) ==
    LET c == Min(FreeConnsIn(g))
        sp == [node |-> g.dict[rec.start_node_id], is_output |-> rec.start_port_is_output]
        ep == [node |-> g.dict[rec.end_node_id], is_output |-> rec.end_port_is_output]
    IN  [g EXCEPT !.conns[c] = [start_port |-> sp, end_port |-> ep],
                  !.portConns[sp] = add_connection(@, c),
                  !.sceneConns = @ \cup {c}]

\* connection = ConnectionItem(start_port, end_port), registered with both
\* ports and added to the scene.
CreateConnection(g, rec) ==
    LET c == Min(FreeConnsIn(g))
        sp == [node |-> g.dict[rec.start_node_id], is_output |-> rec.start_port_is_output]
        ep == [node |-> g.dict[rec.end_node_id], is_output |-> rec.end_port_is_output]
        pcn1 == [g.portConns EXCEPT ![sp] = add_connection(@, c)]
        pcn2 == [pcn1 EXCEPT ![ep] = add_connection(@, c)]
    IN  [g EXCEPT !.conns[c] = [start_port |-> sp, end_port |-> ep],
                  !.portConns = pcn2,
                  !.sceneConns = @ \cup {c}]

\* A from_dict that raises for a node id without entry in nodes_dict.
from_dict_strict(g, rec) ==
    IF rec.fault = "key" THEN [g EXCEPT !.raised = TRUE]
    ELSE IF g.dict[rec.start_node_id] = 0 \/ g.dict[rec.end_node_id] = 0
    THEN [g EXCEPT !.raised = TRUE]
    ELSE IF rec.start_port_index # 0 \/ rec.end_port_index # 0
    THEN [g EXCEPT !.raised = TRUE]
    ELSE CreateConnection(g, rec)

\* ConnectionItem.from_dict and the scene.addItem of deserialize_graph: None
\* when a node id has no entry in nodes_dict; a node has one port of each
\* direction, so a port index other than 0 raises IndexError.
from_dict(g, rec) ==
    IF rec.fault = "key" THEN [g EXCEPT !.raised = TRUE]
    ELSE IF g.dict[rec.start_node_id] = 0 \/ g.dict[rec.end_node_id] = 0 THEN g
    ELSE IF rec.start_port_index # 0 \/ rec.end_port_index # 0
    THEN [g EXCEPT !.raised = TRUE]
    ELSE CreateConnection(g, rec)

\* The body of `for conn_data in graph_data['connections']` of
\* merge_graph_from_file.
MergeConnection(g, rec) ==
    IF rec.fault = "key" THEN [g EXCEPT !.raised = TRUE]
    ELSE IF g.dict[rec.start_node_id] # 0 /\ g.dict[rec.end_node_id] # 0
    THEN IF rec.start_port_index # 0 \/ rec.end_port_index # 0
         THEN [g EXCEPT !.raised = TRUE]
         ELSE CreateConnection(g, rec)
    ELSE g

RECURSIVE DecodeConnections(_, _, _, _)
DecodeConnections(g, recs, merging, i) ==
    IF i > Len(recs) \/ g.raised THEN g
    ELSE DecodeConnections(IF merging THEN MergeConnection(g, recs[i])
                           ELSE from_dict(g, recs[i]),
                           recs, merging, i + 1)

\* MainWindow.deserialize_graph
deserialize_graph(data) ==
    DecodeConnections(DecodeNodes(clear_graph, data.nodes, 0, 1),
                      data.connections, FALSE, 1)

\* The offsets offset_x, offset_y of merge_graph_from_file.
MergeOffset == 50

\* A merge that clears the graph first.
MergeDecode_clearing(data) ==
    DecodeConnections(DecodeNodes(clear_graph, data.nodes, MergeOffset, 1),
                      data.connections, TRUE, 1)

\* The try block of merge_graph_from_file after json.load.
MergeDecode(data) ==
    DecodeConnections(DecodeNodes(GraphNow, data.nodes, MergeOffset, 1),
                      data.connections, TRUE, 1)

\* The graph g becomes the state; an exception raised while decoding is
\* caught by the handler, which reports it.
Install(g, done, failed) ==
    /\ Collect(g.nodes, g.title, g.code, g.viewer, g.result, g.display, g.pos,
               g.conns, g.portConns, g.sceneConns, temp_connection, start_port)
    /\ last' = IF g.raised THEN failed ELSE done
    /\ PassUnchanged
    /\ UNCHANGED <<copied_nodes, file>>

\* MainWindow.load_graph with a file chosen whose content is data.
load_graph(data) ==
    /\ Idle
    /\ Len(data.nodes) <= MaxNodes /\ Len(data.connections) <= MaxConns
    /\ Install(deserialize_graph(data), "load_graph", "load_failed")
    /\ opened' = data

\* MainWindow.merge_graph_from_file (a JSON file dropped on the canvas).
merge_graph_from_file(data) ==
    /\ Idle
    /\ Len(data.nodes) <= Cardinality(FreeNodes)
    /\ Len(data.connections) <= Cardinality(FreeConns)
    /\ Install(MergeDecode(data), "merge_graph", "merge_failed")
    /\ opened' = data

----------------------------------------------------------------------------
\* Copy and paste.  The selection is a list of distinct listed nodes in the
\* order of scene.selectedItems().  A pasted node is placed relative to the
\* centre of the viewport, which the model does not follow: its position
\* has the origin "paste" and the recorded position of the copied node.

\* The position of sel's element n (selected_nodes.index / node_id_to_index).
IndexOf(sel, n) == CHOOSE i \in 1..Len(sel) : sel[i] = n

\* The connection_data of copy_selected_nodes.
connection_data(sel, c) ==
    [start_node_index |-> IndexOf(sel, parentItem(conns[c].start_port)),
     end_node_index |-> IndexOf(sel, parentItem(conns[c].end_port)),
     start_port_is_output |-> conns[c].start_port.is_output,
     start_port_index |-> 0,
     end_port_is_output |-> conns[c].end_port.is_output,
     end_port_index |-> 0]

\* for connection in port.connections, for a port of `node`: recorded when
\* both nodes are selected and the start node is `node`.
RECURSIVE CopyPort(_, _, _)
CopyPort(cs, node, sel) ==
    IF cs = <<>> THEN <<>>
    ELSE (IF /\ parentItem(conns[Head(cs)].start_port) \in Range(sel)
             /\ parentItem(conns[Head(cs)].end_port) \in Range(sel)
             /\ parentItem(conns[Head(cs)].start_port) = node
          THEN <<connection_data(sel, Head(cs))>> ELSE <<>>)
         \o CopyPort(Tail(cs), node, sel)

\* The node_data of copy_selected_nodes with its connections filled in.
node_data(sel, i) ==
    [title |-> title[sel[i]], code |-> code[sel[i]], rel |-> pos[sel[i]],
     is_viewer |-> viewer[sel[i]],
     connections |-> CopyPort(portConns[InputPort(sel[i])], sel[i], sel)
                     \o CopyPort(portConns[OutputPort(sel[i])], sel[i], sel)]

\* NodeCanvas.copy_selected_nodes (Ctrl+C) with the nodes of sel selected;
\* an empty selection returns at once.
copy_selected_nodes(sel) ==
    /\ Idle
    /\ Range(sel) \subseteq Range(nodes)
    /\ \A i, j \in 1..Len(sel) : sel[i] = sel[j] => i = j
    /\ copied_nodes' = IF sel = <<>> THEN copied_nodes
                       ELSE [i \in 1..Len(sel) |-> node_data(sel, i)]
    /\ last' = "copy"
    /\ UNCHANGED <<graphVars, result, display, file, opened>>
    /\ PassUnchanged

\* The first loop of paste_nodes: one new node per copied record; dict is
\* the list new_nodes.
RECURSIVE PasteNodes(_, _)
PasteNodes(g, i) ==
    IF i > Len(copied_nodes) THEN g
    ELSE LET n == Min(FreeNodesIn(g))
             rec == copied_nodes[i]
         IN  PasteNodes([g EXCEPT !.nodes = Append(@, n),
                                  !.title[n] = rec.title,
                                  !.code[n] = setText(rec.code),
                                  !.viewer[n] = rec.is_viewer,
                                  !.result[n] = None,
                                  !.display[n] = IF rec.is_viewer THEN DisplayYet ELSE None,
                                  !.pos[n] = [org |-> "paste", x |-> rec.rel.x, y |-> rec.rel.y],
                                  !.dict[i] = n],
                        i + 1)

\* The second loop of paste_nodes: the connections of record i from its
\* j-th on, then those of the records after it.
RECURSIVE PasteConnections(_, _, _)
PasteConnections(g, i, j) ==
    IF i > Len(copied_nodes) THEN g
    ELSE IF j > Len(copied_nodes[i].connections) THEN PasteConnections(g, i + 1, 1)
    ELSE LET cd == copied_nodes[i].connections[j]
         IN  PasteConnections(
                 CreateConnection(g, [start_node_id |-> cd.start_node_index,
                                      start_port_is_output |-> cd.start_port_is_output,
                                      end_node_id |-> cd.end_node_index,
                                      end_port_is_output |-> cd.end_port_is_output]),
                 i, j + 1)

\* The number of connection records held by the copied nodes.
RECURSIVE CopiedConnections(_)
CopiedConnections(i) ==
    IF i > Len(copied_nodes) THEN 0
    ELSE Len(copied_nodes[i].connections) + CopiedConnections(i + 1)

\* NodeCanvas.paste_nodes (Ctrl+V); nothing copied returns at once.
paste_nodes ==
    /\ Idle
    /\ Len(copied_nodes) <= Cardinality(FreeNodes)
    /\ CopiedConnections(1) <= Cardinality(FreeConns)
    /\ IF copied_nodes = <<>>
       THEN UNCHANGED <<graphVars, result, display>>
       ELSE LET g == PasteConnections(PasteNodes(GraphNow, 1), 1, 1)
            IN  Collect(g.nodes, g.title, g.code, g.viewer, g.result, g.display,
                        g.pos, g.conns, g.portConns, g.sceneConns,
                        temp_connection, start_port)
    /\ last' = IF copied_nodes = <<>> THEN "paste_nothing" ELSE "paste"
    /\ PassUnchanged
    /\ StoreUnchanged

----------------------------------------------------------------------------
\* Auto-execute: the checkable toolbar action, the interval dialog and the
\* QTimer whose timeout triggers execute_graph.

\* self.execute_interval = 1000
DefaultInterval == 1000

\* The range of the interval dialog, in tenths of a second (0.1 .. 3600 with
\* one decimal).
MinTenths == 1
MaxTenths == 36000

\* The intervals the user enters, in tenths of a second.
Intervals == {MinTenths, 20, 323, MaxTenths}

\* The entries among Intervals whose product with 1000 in binary floating
\* point lies below the exact product: 32.3 * 1000 = 32299.999999999996.
BelowExact == {323}

\* int(interval * 1000) for the interval k / 10 seconds: the product in
\* floating point, truncated.
Millis(k) == IF k \in BelowExact THEN k * 100 - 1 ELSE k * 100

\* A toggle that does not stop the timer.
toggle_auto_execute_nostop ==
    /\ Idle
    /\ auto_execute' = ~auto_execute
    /\ timer_active' = TRUE
    /\ timer_interval' = IF auto_execute' THEN execute_interval ELSE timer_interval
    /\ last' = "toggle_auto_execute"
    /\ UNCHANGED <<graphVars, storeVars, passVars, result, display, python_path,
                   execute_interval>>

\* MainWindow.toggle_auto_execute(checked): the user clicks the checkable
\* action, which flips its state and passes the new state; checked starts
\* the timer with execute_interval, unchecked stops it.
toggle_auto_execute ==
    /\ Idle
    /\ auto_execute' = ~auto_execute
    /\ timer_active' = auto_execute'
    /\ timer_interval' = IF auto_execute' THEN execute_interval ELSE timer_interval
    /\ last' = "toggle_auto_execute"
    /\ UNCHANGED <<graphVars, storeVars, passVars, result, display, python_path,
                   execute_interval>>

\* MainWindow.set_execute_interval with the dialog closed on the value k / 10
\* seconds by OK (ok) or by Cancel.
set_execute_interval(k, ok) ==
    /\ Idle
    /\ IF ok
       THEN /\ execute_interval' = Millis(k)
            /\ IF auto_execute
               THEN timer_active' = TRUE /\ timer_interval' = execute_interval'
               ELSE UNCHANGED <<timer_active, timer_interval>>
       ELSE UNCHANGED <<execute_interval, timer_active, timer_interval>>
    /\ last' = IF ok THEN "set_execute_interval" ELSE "interval_dismissed"
    /\ UNCHANGED <<graphVars, storeVars, passVars, result, display, python_path,
                   auto_execute>>

\* execute_timer.timeout, connected to execute_graph.
timeout(answer) == timer_active /\ execute_graph(answer)

----------------------------------------------------------------------------
\* After MainWindow.__init__: the two sample nodes, no connection; the
\* Python path comes from the stored settings and may be empty.
Init ==
    /\ nodes = <<1, 2>>
    /\ title = [n \in NodeIds |-> IF n \in {1, 2} THEN <<"Node", n>> ELSE DefaultTitle]
    /\ code = [n \in NodeIds |-> IF n = 1 THEN "const42"
                                 ELSE IF n = 2 THEN "double" ELSE DefaultCode]
    /\ viewer = [n \in NodeIds |-> FALSE]
    /\ result = [n \in NodeIds |-> None]
    /\ display = [n \in NodeIds |-> None]
    /\ pos = [n \in NodeIds |-> IF n = 1 THEN ScenePos(100, 100)
                                ELSE IF n = 2 THEN ScenePos(350, 50) ELSE DefaultPos]
    /\ conns = [c \in ConnIds |-> NoConn]
    /\ portConns = [p \in Ports |-> <<>>]
    /\ sceneConns = {}
    /\ temp_connection = 0
    /\ start_port = NoPort
    /\ python_path \in BOOLEAN
    /\ pc = "idle"
    /\ executed = {}
    /\ scan = 0
    /\ evalSeq = <<>>
    /\ log = <<>>
    /\ hadResult = {}
    /\ last = "init"
    /\ copied_nodes = <<>>
    /\ file = NoFile
    /\ opened = NoFile
    /\ auto_execute = FALSE
    /\ timer_active = FALSE
    /\ timer_interval = 0
    /\ execute_interval = DefaultInterval
    /\ codeEdits = 0
    /\ passes = 0
    /\ deletes = 0
    /\ fileOps = 0
    /\ clipOps = 0

\* The user within the bounds: the graph is wired first (nodes added, ports
\* dragged), then code strings are edited and passes are triggered.
Wiring == codeEdits = 0 /\ passes = 0

Next ==
    \/ Wiring /\ Len(nodes) < MaxListed /\ add_node /\ UNCHANGED envVars
    \/ Wiring /\ Len(nodes) < MaxListed /\ add_viewer_node /\ UNCHANGED envVars
    \/ /\ Wiring /\ Cardinality(LiveConns) < MaxWired
       /\ (\E p \in Ports : MousePressPort(p)) /\ UNCHANGED envVars
    \/ Wiring /\ (\E item \in Ports \cup {NoPort} : MouseRelease(item)) /\ UNCHANGED envVars
    \/ /\ temp_connection = 0 /\ codeEdits < MaxCodeEdits
       /\ \E n \in NodeIds, k \in CodeKinds : set_code(n, k)
       /\ codeEdits' = codeEdits + 1 /\ UNCHANGED <<passes, deletes, fileOps, clipOps>>
    \/ /\ temp_connection = 0 /\ passes < MaxPasses
       /\ \E answer \in {"no", "yes_set", "yes_dismiss"} : execute_graph(answer)
       /\ passes' = passes + 1 /\ UNCHANGED <<codeEdits, deletes, fileOps, clipOps>>
    \/ ExecuteGraphReturn /\ UNCHANGED envVars

Spec == Init /\ [][Next]_vars

\* The user who also deletes items while wiring, and edits no code string.
\* A pass is started from the toolbar or by the auto-execute timer, which
\* also fires while a connection is being dragged.
NextDelete ==
    \/ Wiring /\ Len(nodes) < MaxListed /\ add_node /\ UNCHANGED envVars
    \/ Wiring /\ Len(nodes) < MaxListed /\ add_viewer_node /\ UNCHANGED envVars
    \/ /\ Wiring /\ Cardinality(LiveConns) < MaxWired
       /\ (\E p \in Ports : MousePressPort(p)) /\ UNCHANGED envVars
    \/ Wiring /\ (\E item \in Ports \cup {NoPort} : MouseRelease(item)) /\ UNCHANGED envVars
    \/ /\ Wiring /\ deletes < MaxDeletes
       /\ \E n \in NodeIds : MousePressRightNode(n)
       /\ deletes' = deletes + 1 /\ UNCHANGED <<codeEdits, passes, fileOps, clipOps>>
    \/ /\ Wiring /\ deletes < MaxDeletes
       /\ \E c \in ConnIds : MousePressRightConnection(c)
       /\ deletes' = deletes + 1 /\ UNCHANGED <<codeEdits, passes, fileOps, clipOps>>
    \/ /\ passes < MaxPasses
       /\ \E answer \in {"no", "yes_set", "yes_dismiss"} : execute_graph(answer)
       /\ passes' = passes + 1 /\ UNCHANGED <<codeEdits, deletes, fileOps, clipOps>>
    \/ ExecuteGraphReturn /\ UNCHANGED envVars

SpecDelete == Init /\ [][NextDelete]_vars

\* The user who wires up to MaxConns connections and edits no code string.
NextWire ==
    \/ Wiring /\ Len(nodes) < MaxListed /\ add_node /\ UNCHANGED envVars
    \/ Wiring /\ Len(nodes) < MaxListed /\ add_viewer_node /\ UNCHANGED envVars
    \/ /\ Wiring /\ Cardinality(LiveConns) < MaxDragged
       /\ (\E p \in Ports : MousePressPort(p)) /\ UNCHANGED envVars
    \/ Wiring /\ (\E item \in Ports \cup {NoPort} : MouseRelease(item)) /\ UNCHANGED envVars
    \/ /\ temp_connection = 0 /\ passes < MaxPasses
       /\ \E answer \in {"no", "yes_set", "yes_dismiss"} : execute_graph(answer)
       /\ passes' = passes + 1 /\ UNCHANGED <<codeEdits, deletes, fileOps, clipOps>>
    \/ ExecuteGraphReturn /\ UNCHANGED envVars

SpecWire == Init /\ [][NextWire]_vars

\* Files the program did not write.  Node records: a plain node 1 and a
\* viewer node 2.  Connection records join ports of the ids 1, 2 and 3 (3 is
\* the id of no node record); GoodConn is a connection from node 1's output
\* to node 2's input.
ExtNode(i, fault) ==
    [id |-> i, title |-> <<"Node", i>>, pos_org |-> "scene", pos_x |-> 100 * i,
     pos_y |-> 100, code |-> IF i = 1 THEN "const42" ELSE "ident",
     node_type |-> IF i = 1 THEN "" ELSE "viewer", fault |-> fault]

ExtConn(s, so, e, eo, idx, fault) ==
    [start_node_id |-> s, start_port_index |-> 0, start_port_is_output |-> so,
     end_node_id |-> e, end_port_index |-> idx, end_port_is_output |-> eo,
     fault |-> fault]

GoodConn == ExtConn(1, TRUE, 2, FALSE, 0, "none")

\* Well-formed node records with one connection record of any shape.
ExtConnRecs ==
    {ExtConn(s, so, e, eo, 0, "none") : s \in 1..3, e \in 1..3, so \in BOOLEAN, eo \in BOOLEAN}

\* Connection records that are dropped or raise: an id of no node record, a
\* port index out of range, a missing key.
OddConnRecs ==
    {ExtConn(1, TRUE, 3, FALSE, 0, "none"), ExtConn(3, TRUE, 2, FALSE, 0, "none"),
     ExtConn(1, TRUE, 2, FALSE, 1, "none"), ExtConn(1, TRUE, 3, FALSE, 1, "none"),
     ExtConn(1, TRUE, 2, FALSE, 0, "key")}

ExtConnLists ==
    {<<>>} \cup {<<r>> : r \in ExtConnRecs \cup OddConnRecs}
           \cup {<<r, GoodConn>> : r \in OddConnRecs \cup {GoodConn}}
           \cup {<<GoodConn, r>> : r \in OddConnRecs}

\* Node records of which one lacks a field.
FaultyNodeLists ==
    {<<ExtNode(1, f), ExtNode(2, "none")>> : f \in {"field", "id"}}
    \cup {<<ExtNode(1, "none"), ExtNode(2, f)>> : f \in {"field", "id"}}

ExternalFiles ==
    {[nodes |-> ns, connections |-> cs, written |-> TRUE] :
        ns \in {<<ExtNode(1, "none")>>, <<ExtNode(1, "none"), ExtNode(2, "none")>>},
        cs \in ExtConnLists}
    \cup {[nodes |-> ns, connections |-> <<GoodConn>>, written |-> TRUE] :
            ns \in FaultyNodeLists}

\* The files the user chooses from: the file saved, or an external one while
\* no code string was edited and no pass was run.
Files == IF file.written THEN {file} ELSE IF Wiring THEN ExternalFiles ELSE {}

\* The user who wires, types a code string with an HTML tag into one
\* editor, saves the graph once, and then loads or merges a file; one pass is
\* run before the file is opened.
Unsaved == Wiring /\ fileOps = 0 /\ ~file.written

NextFile ==
    \/ Unsaved /\ Len(nodes) < MaxListed /\ add_node /\ UNCHANGED envVars
    \/ Unsaved /\ Len(nodes) < MaxListed /\ add_viewer_node /\ UNCHANGED envVars
    \/ /\ Unsaved /\ Cardinality(LiveConns) < MaxWired
       /\ (\E p \in Ports : MousePressPort(p)) /\ UNCHANGED envVars
    \/ /\ Unsaved
       /\ (\E item \in Ports \cup {NoPort} : MouseRelease(item)) /\ UNCHANGED envVars
    \/ /\ temp_connection = 0 /\ fileOps = 0 /\ passes = 0
       /\ \E answer \in {"no", "yes_set", "yes_dismiss"} : execute_graph(answer)
       /\ passes' = passes + 1 /\ UNCHANGED <<codeEdits, deletes, fileOps, clipOps>>
    \/ /\ temp_connection = 0 /\ fileOps = 0 /\ ~file.written /\ codeEdits < MaxCodeEdits
       /\ \E n \in NodeIds : set_code(n, Markup)
       /\ codeEdits' = codeEdits + 1 /\ UNCHANGED <<passes, deletes, fileOps, clipOps>>
    \/ ExecuteGraphReturn /\ UNCHANGED envVars
    \/ /\ temp_connection = 0 /\ fileOps = 0 /\ ~file.written
       /\ save_graph /\ UNCHANGED envVars
    \/ /\ temp_connection = 0 /\ fileOps < MaxFileOps
       /\ \E data \in Files : load_graph(data)
       /\ fileOps' = fileOps + 1 /\ UNCHANGED <<codeEdits, passes, deletes, clipOps>>
    \/ /\ temp_connection = 0 /\ fileOps < MaxFileOps
       /\ \E data \in Files : merge_graph_from_file(data)
       /\ fileOps' = fileOps + 1 /\ UNCHANGED <<codeEdits, passes, deletes, clipOps>>

SpecFile == Init /\ [][NextFile]_vars

\* The external files with two well-formed node records and at most one
\* connection record, which joins the two nodes or is a loop on the first.
EditFiles ==
    {[nodes |-> <<ExtNode(1, "none"), ExtNode(2, "none")>>, connections |-> cs,
      written |-> TRUE] :
        cs \in {<<>>, <<GoodConn>>, <<ExtConn(1, TRUE, 1, FALSE, 0, "none")>>,
                <<ExtConn(2, FALSE, 1, FALSE, 0, "none")>>}}

\* The selections: the lists of distinct listed nodes.
Selections ==
    {sel \in UNION {[1..k -> Range(nodes)] : k \in 0..Len(nodes)} :
        \A i, j \in 1..Len(sel) : sel[i] = sel[j] => i = j}

\* The user who wires, deletes, copies once, pastes, and loads or merges an
\* external file, and runs no pass.  Nodes are added from the toolbar first;
\* the nodes are copied while every connection joins listed nodes.
Fresh == deletes = 0 /\ fileOps = 0 /\ clipOps = 0 /\ copied_nodes = <<>>

NextEdit ==
    \/ /\ Fresh /\ Cardinality(LiveConns) < MaxWired
       /\ (\E p \in Ports : MousePressPort(p)) /\ UNCHANGED envVars
    \/ (\E item \in Ports \cup {NoPort} : MouseRelease(item)) /\ UNCHANGED envVars
    \/ /\ deletes < MaxDeletes
       /\ \E n \in NodeIds : MousePressRightNode(n)
       /\ deletes' = deletes + 1 /\ UNCHANGED <<codeEdits, passes, fileOps, clipOps>>
    \/ /\ deletes < MaxDeletes
       /\ \E c \in ConnIds : MousePressRightConnection(c)
       /\ deletes' = deletes + 1 /\ UNCHANGED <<codeEdits, passes, fileOps, clipOps>>
    \/ /\ copied_nodes = <<>> /\ Intact
       /\ \E sel \in Selections : copy_selected_nodes(sel)
       /\ UNCHANGED envVars
    \/ /\ clipOps < MaxClipOps
       /\ paste_nodes
       /\ clipOps' = clipOps + 1 /\ UNCHANGED <<codeEdits, passes, deletes, fileOps>>
    \/ /\ temp_connection = 0 /\ fileOps < MaxFileOps
       /\ \E data \in EditFiles : load_graph(data)
       /\ fileOps' = fileOps + 1 /\ UNCHANGED <<codeEdits, passes, deletes, clipOps>>
    \/ /\ temp_connection = 0 /\ fileOps < MaxFileOps
       /\ \E data \in EditFiles : merge_graph_from_file(data)
       /\ fileOps' = fileOps + 1 /\ UNCHANGED <<codeEdits, passes, deletes, clipOps>>

\* The user who goes on wiring between two passes: a viewer is added, ports
\* are dragged, and a pass is triggered at any moment without a pending drag.
NextView ==
    \/ Len(nodes) < MaxListed /\ add_viewer_node /\ UNCHANGED envVars
    \/ /\ Cardinality(LiveConns) < MaxWired
       /\ (\E p \in Ports : MousePressPort(p)) /\ UNCHANGED envVars
    \/ (\E item \in Ports \cup {NoPort} : MouseRelease(item)) /\ UNCHANGED envVars
    \/ /\ temp_connection = 0 /\ passes < MaxPasses
       /\ \E answer \in {"no", "yes_set", "yes_dismiss"} : execute_graph(answer)
       /\ passes' = passes + 1 /\ UNCHANGED <<codeEdits, deletes, fileOps, clipOps>>
    \/ ExecuteGraphReturn /\ UNCHANGED envVars

SpecView == Init /\ [][NextView]_vars

\* The user of the auto-run: the Auto-Execute action is clicked, the interval
\* dialog is used, and passes are triggered by the timer and by hand.
NextTimer ==
    \/ toggle_auto_execute /\ UNCHANGED envVars
    \/ (\E k \in Intervals, ok \in BOOLEAN : set_execute_interval(k, ok))
       /\ UNCHANGED envVars
    \/ /\ passes < MaxPasses
       /\ \E answer \in {"no", "yes_set", "yes_dismiss"} : timeout(answer)
       /\ passes' = passes + 1 /\ UNCHANGED <<codeEdits, deletes, fileOps, clipOps>>
    \/ /\ passes < MaxPasses
       /\ \E answer \in {"no", "yes_set", "yes_dismiss"} : execute_graph(answer)
       /\ passes' = passes + 1 /\ UNCHANGED <<codeEdits, deletes, fileOps, clipOps>>
    \/ ExecuteGraphReturn /\ UNCHANGED envVars

SpecTimer == Init /\ [][NextTimer]_vars

\* The editor started with a Python path stored in the settings.
InitEdit == Init /\ python_path = TRUE

SpecEdit == InitEdit /\ [][NextEdit]_vars

----------------------------------------------------------------------------
\* Vocabulary of the properties.  It is stated over the ports' collections
\* and the record of the pass, not through the operators of the pass.

InList(n) == n \in Range(nodes)

\* The ports on the other end of the connections held by n's input port.
OtherEnd(c, p) == IF conns[c].end_port = p THEN conns[c].start_port ELSE conns[c].end_port

\* The nodes on the other end of the connections on n's input port.
Upstream(n) ==
    {OtherEnd(portConns[InputPort(n)][i], InputPort(n)).node :
        i \in 1..Len(portConns[InputPort(n)])}

\* The nodes from which n can be reached along connections into input ports.
RECURSIVE Closure(_)
Closure(S) ==
    LET T == S \cup UNION {Upstream(m) : m \in S \cap NodeIds}
    IN  IF T = S THEN S ELSE Closure(T)

Ancestors(n) == Closure(Upstream(n))
OnCycle(n) == n \in Ancestors(n)
Acyclic == \A n \in Range(nodes) : ~OnCycle(n)

\* No connection joins the two ports of one node.
NoSelfLoop == \A n \in Range(nodes) : n \notin Upstream(n)

\* Every connection on an input port of a listed node comes from a listed node.
NoDangling == \A n \in Range(nodes) : Upstream(n) \subseteq Range(nodes)

\* The record of the pass.
Evaluated == {evalSeq[i].node : i \in 1..Len(evalSeq)}
EvalIndexes(n) == {i \in 1..Len(evalSeq) : evalSeq[i].node = n}
EvaluatedBefore(m, i) == \E j \in 1..(i - 1) : evalSeq[j].node = m
PassDone == pc = "done"

\* C1: in a pass over a graph whose connections join listed nodes and contain
\* no cycle, every node of the node list is evaluated exactly once, and a
\* node is evaluated only after every node on the other end of a connection
\* on its input port.
C1_AcyclicOnceInOrder ==
    (PassDone /\ Acyclic /\ NoDangling) =>
        /\ \A n \in Range(nodes) : Cardinality(EvalIndexes(n)) = 1
        /\ \A i \in 1..Len(evalSeq) :
              \A m \in Upstream(evalSeq[i].node) : EvaluatedBefore(m, i)

\* A pass over an acyclic chain of three nodes that lies against the order of
\* the node list, so that the pass needs several scans.
C1_Witness ==
    /\ PassDone /\ Acyclic /\ NoDangling
    /\ Len(nodes) = 3
    /\ scan >= 3
    /\ \E n \in Range(nodes) : Cardinality(Ancestors(n)) = 2

\* A node is blocked when it, or a node it can be reached from, is on a cycle
\* or is absent from the node list.
Blocked(n) == \E m \in {n} \cup Ancestors(n) : m \notin Range(nodes) \/ OnCycle(m)

\* C2 as stated: in a pass over a graph that contains a cycle, no node on a
\* cycle is evaluated and every node that is not on a cycle is evaluated
\* (once).
C2_Original ==
    (PassDone /\ ~Acyclic /\ NoDangling /\ NoSelfLoop) =>
        \A n \in Range(nodes) :
            IF OnCycle(n) THEN n \notin Evaluated
            ELSE Cardinality(EvalIndexes(n)) = 1

\* C2, amended: in a pass over a graph that contains a cycle, a node is not
\* evaluated when it is on a cycle or can be reached from a node on a cycle;
\* every other node is evaluated once.
C2_CycleBlocksDownstream ==
    (PassDone /\ ~Acyclic /\ NoDangling) =>
        \A n \in Range(nodes) :
            IF Blocked(n) THEN n \notin Evaluated
            ELSE Cardinality(EvalIndexes(n)) = 1

\* A pass over a graph with two nodes on a cycle and a third node downstream
\* of them that is on no cycle.
C2_Witness ==
    /\ PassDone /\ NoDangling /\ NoSelfLoop
    /\ \E a, b, c \in Range(nodes) :
          /\ a # b /\ a \in Ancestors(b) /\ b \in Ancestors(a)
          /\ ~OnCycle(c) /\ a \in Ancestors(c) /\ c \notin Evaluated

\* An evaluation failed: the code raised an exception (while the code
\* string was executed or inside process) or defined no process.
Failed(i) == evalSeq[i].caught \/ ~evalSeq[i].called
FailedNode(m) == \E j \in 1..Len(evalSeq) : evalSeq[j].node = m /\ Failed(j)

\* The nodes whose process raised an exception in the pass.
RaisingNodes == {evalSeq[i].node : i \in {j \in 1..Len(evalSeq) :
                                            evalSeq[j].called /\ evalSeq[j].caught}}

\* The nodes all of whose input connections lead back to f only.
RECURSIVE ExclusiveFrom(_, _)
ExclusiveFrom(f, E) ==
    LET F == E \cup {d \in Range(nodes) \ {f} :
                        Upstream(d) # {} /\ Upstream(d) \subseteq ({f} \cup E)}
    IN  IF F = E THEN E ELSE ExclusiveFrom(f, F)

ExclusiveDependents(f) == ExclusiveFrom(f, {})

LastEntry == log[Len(log)]

\* C3 as stated: in a pass over a graph in which exactly one node's process
\* raises an exception, every node that does not depend on that node is
\* evaluated, and the summary's executed count is the number of nodes minus
\* the failing node and minus the nodes exclusively dependent on it.
C3_Claim ==
    (PassDone /\ Acyclic /\ NoDangling /\ Cardinality(RaisingNodes) = 1) =>
        \A f \in RaisingNodes :
            /\ \A n \in Range(nodes) \ {f} : f \notin Ancestors(n) => n \in Evaluated
            /\ LastEntry.kind = "summary"
            /\ LastEntry.executed =
                  Len(nodes) - 1 - Cardinality(ExclusiveDependents(f))

\* C4 as stated: a node whose code raises an exception or defines no process
\* is not added to the executed set, and the entry the pass logs for it is an
\* error entry naming the node; the pass goes on with the remaining nodes.
C4_Claim ==
    PassDone =>
        /\ \A i \in 1..Len(evalSeq) :
              Failed(i) =>
                  /\ evalSeq[i].node \notin executed
                  /\ log[i + 1].kind = "error"
                  /\ log[i + 1].title = title[evalSeq[i].node]
        /\ \A n \in Range(nodes) : ~Blocked(n) => n \in Evaluated

UpstreamResults(n) ==
    [i \in 1..Len(portConns[InputPort(n)]) |->
        result[OtherEnd(portConns[InputPort(n)][i], InputPort(n)).node]]

ExpectedInputs(n) == SelectSeq(UpstreamResults(n), LAMBDA v : v # None)

\* C6: process is called with the non-None results of the nodes on the other
\* end of the connections on the input port, in the order of the port's
\* collection, and with the single argument None when there is none; the
\* value it returns becomes the node's result.  A node returning 42 wired
\* into a node computing input * 2 gives 84 in the same pass.
C6_ArgumentsAndResult ==
    PassDone =>
        /\ \A i \in 1..Len(evalSeq) :
              evalSeq[i].called =>
                  /\ evalSeq[i].args =
                        (IF Len(ExpectedInputs(evalSeq[i].node)) = 0 THEN <<None>>
                         ELSE ExpectedInputs(evalSeq[i].node))
                  /\ ~evalSeq[i].caught => result[evalSeq[i].node] = evalSeq[i].ret
        /\ \A a, b \in Range(nodes) :
              (/\ code[a] = "const42" /\ Upstream(a) = {}
               /\ code[b] = "double" /\ Upstream(b) = {a}
               /\ Len(portConns[InputPort(b)]) = 1)
              => result[a] = Some(42) /\ result[b] = Some(84)

\* A process called with two different values whose result shows their order.
C6_Witness ==
    /\ PassDone
    /\ \E i \in 1..Len(evalSeq) :
          /\ Len(evalSeq[i].args) = 2 /\ evalSeq[i].args[1] # evalSeq[i].args[2]
          /\ ~evalSeq[i].caught
          /\ result[evalSeq[i].node] = evalSeq[i].args[1]

\* C7 as stated: a node downstream of a node whose evaluation failed is
\* evaluated once the nodes on its input connections have been evaluated,
\* and process is called with None in the place of the failed node's value.
C7_Original ==
    PassDone =>
        \A i \in 1..Len(evalSeq) :
            (evalSeq[i].called /\ \E f \in Upstream(evalSeq[i].node) : FailedNode(f))
            => evalSeq[i].args = UpstreamResults(evalSeq[i].node)

\* The non-None results of the upstream nodes of n that did not fail.
OtherInputs(n) ==
    LET cs == portConns[InputPort(n)]
        ok == {k \in 1..Len(cs) :
                  /\ ~FailedNode(OtherEnd(cs[k], InputPort(n)).node)
                  /\ UpstreamResults(n)[k] # None}
        RECURSIVE Pick(_)
        Pick(k) == IF k > Len(cs) THEN <<>>
                   ELSE (IF k \in ok THEN <<UpstreamResults(n)[k]>> ELSE <<>>)
                        \o Pick(k + 1)
    IN  Pick(1)

\* C7, amended: a node downstream of a node whose evaluation failed is
\* evaluated once the nodes on its input connections have been evaluated;
\* the failed node contributes no argument: process is called with the
\* values of the other upstream nodes, and with the single argument None
\* when there is no such value.
C7_FailedUpstreamOmitted ==
    PassDone =>
        /\ \A n \in Range(nodes) :
              (Upstream(n) \subseteq Evaluated /\ \E f \in Upstream(n) : FailedNode(f))
              => n \in Evaluated
        /\ \A i \in 1..Len(evalSeq) :
              (evalSeq[i].called /\ \E f \in Upstream(evalSeq[i].node) : FailedNode(f))
              => /\ \A m \in Upstream(evalSeq[i].node) : EvaluatedBefore(m, i)
                 /\ evalSeq[i].args =
                       (IF OtherInputs(evalSeq[i].node) = <<>> THEN <<None>>
                        ELSE OtherInputs(evalSeq[i].node))

\* A node with two upstream nodes, one failed and one with a value, whose
\* process is called with that value alone.
C7_Witness ==
    /\ PassDone
    /\ \E i \in 1..Len(evalSeq) :
          /\ evalSeq[i].called
          /\ Len(portConns[InputPort(evalSeq[i].node)]) = 2
          /\ \E f \in Upstream(evalSeq[i].node) : FailedNode(f)
          /\ Len(evalSeq[i].args) = 1 /\ evalSeq[i].args[1] # None

\* C8: when a pass has ended, a listed node's result is not None only if the
\* node was evaluated in this pass and returned that value, and every value
\* passed to a process was returned earlier in this pass by a node on the
\* other end of an input connection.
C8_ResultsAreFromThisPass ==
    PassDone =>
        /\ \A n \in Range(nodes) :
              result[n] # None =>
                  \E i \in 1..Len(evalSeq) :
                      evalSeq[i].node = n /\ evalSeq[i].ret = result[n]
        /\ \A i \in 1..Len(evalSeq) :
              \A k \in 1..Len(evalSeq[i].args) :
                  evalSeq[i].args[k] # None =>
                      \E j \in 1..(i - 1) :
                          /\ evalSeq[j].node \in Upstream(evalSeq[i].node)
                          /\ evalSeq[j].ret = evalSeq[i].args[k]

\* A node that had a result when the pass began has none when it ends, and a
\* node downstream of it was evaluated in this pass.
C8_Witness ==
    /\ PassDone
    /\ \E n \in hadResult, d \in Range(nodes) :
          /\ result[n] = None
          /\ n \in Upstream(d) /\ d \in Evaluated /\ d \in hadResult

HandlerEnded == pc \in {"done", "cancelled", "raised"}
SummaryEntries == {i \in 1..Len(log) : log[i].kind = "summary"}

C10_SameDirectionRelease ==
    [][\A item \in Ports :
          (/\ temp_connection # 0
           /\ item # start_port
           /\ item.is_output = start_port.is_output
           /\ MouseRelease(item))
          => /\ \A p \in Ports : p.node \in Range(nodes) => portConns'[p] = portConns[p]
             /\ Cardinality(Registered') = Cardinality(Registered)
             /\ temp_connection' = 0 /\ start_port' = NoPort
             /\ temp_connection \notin sceneConns'
             /\ temp_connection \notin Registered']_vars

\* A pending connection has just been released on a port of its start
\* port's direction, in a graph that has a connection.
C10_Witness ==
    /\ last = "invalid_connection"
    /\ Registered # {}

\* C11 as stated: releasing the pending connection on the other port of the
\* node it started from is rejected: the collections of all ports are
\* unchanged, and no node has a connection between its own two ports.
C11_Claim ==
    [][\A item \in Ports :
          (/\ temp_connection # 0
           /\ item # start_port
           /\ item.node = start_port.node
           /\ MouseRelease(item))
          => /\ portConns' = portConns
             /\ \A c \in Registered' : conns'[c].start_port.node # conns'[c].end_port.node]_vars

\* C12 as stated: in every reachable state, every connection held by a port
\* of a listed node joins one input port and one output port.
C12_Claim ==
    \A c \in Registered : conns[c].start_port.is_output # conns[c].end_port.is_output

\* C13: a right-click on a node removes it from the node list and keeps the
\* other nodes in order, and afterwards no port of a remaining node holds a
\* connection that has a port of the deleted node as start port or end port.
C13_DeleteCascades ==
    [][\A n \in NodeIds :
          MousePressRightNode(n) =>
              /\ nodes' = SelectSeq(nodes, LAMBDA m : m # n)
              /\ \A p \in Ports :
                    p.node \in Range(nodes') =>
                        \A i \in 1..Len(portConns'[p]) :
                            /\ conns'[portConns'[p][i]].start_port.node # n
                            /\ conns'[portConns'[p][i]].end_port.node # n]_vars

\* A node that had connections has just been deleted, and a node remains
\* that still holds a connection.
C13_Witness ==
    /\ last = "delete_node_cascade"
    /\ Registered # {}

\* C14 as stated: in every reachable state, both ports of every connection
\* held by a port of a listed node belong to listed nodes.
C14_Claim ==
    \A c \in Registered :
        /\ conns[c].start_port.node \in Range(nodes)
        /\ conns[c].end_port.node \in Range(nodes)

\* C15: every connection held by a port of a listed node is held by exactly
\* those ports of listed nodes that are its start port or its end port, and
\* no collection of a listed node's port holds a connection twice.
Occurrences(cs, c) == Cardinality({i \in 1..Len(cs) : cs[i] = c})

C15_Symmetric ==
    \A p \in Ports : p.node \in Range(nodes) =>
        \A c \in Registered :
            /\ c \in Range(portConns[p]) <=> (conns[c].start_port = p \/ conns[c].end_port = p)
            /\ Occurrences(portConns[p], c) <= 1

\* A pasted, a loaded or a merged connection is held by both of its ports
\* after a node with connections was deleted.
C15_Witness ==
    /\ last \in {"paste", "load_graph", "merge_graph"}
    /\ deletes > 0
    /\ \E c \in Registered :
        /\ conns[c].start_port.node \in Range(nodes)
        /\ conns[c].end_port.node \in Range(nodes)
        /\ c \in Range(portConns[conns[c].start_port])
        /\ c \in Range(portConns[conns[c].end_port])

\* C16: a connection without end port is held by no port's collection, and
\* every record of serialize_graph's output is the record of a connection
\* that has both ports and is not the pending one.
Pending == {c \in LiveConns : conns[c].end_port = NoPort}

C16_PendingUnheld ==
    /\ \A c \in Pending, p \in Ports : c \notin Range(portConns[p])
    /\ \A i \in 1..Len(serialize_graph.connections) :
          \E c \in Registered \ (Pending \cup {temp_connection}) :
              conn_to_dict(c) = <<serialize_graph.connections[i]>>

\* A pass has run over a graph with a connection while a drag was pending,
\* and serialize_graph emits a connection.
C16_Witness ==
    /\ temp_connection # 0
    /\ conns[temp_connection].end_port = NoPort
    /\ pc = "done"
    /\ Len(evalSeq) > 0
    /\ serialize_graph.connections # <<>>

\* What deserialize_graph builds from the output of serialize_graph.
RoundTrip == deserialize_graph(serialize_graph)

\* The connections of cs that start at the port of node a with direction so
\* and end at the port of node b with direction eo.
Joining(cn, cs, a, so, b, eo) ==
    {c \in cs : /\ cn[c].start_port = [node |-> a, is_output |-> so]
                /\ cn[c].end_port = [node |-> b, is_output |-> eo]}

\* C17 as stated: saving and loading yields the same number of nodes in the
\* same order with the same title, code, position and kind, and the same
\* number of connections between the corresponding ports in the same
\* direction.
C17_Claim ==
    LET g == RoundTrip
        made == HeldBy(Range(g.nodes), g.portConns)
    IN  /\ ~g.raised
        /\ Len(g.nodes) = Len(nodes)
        /\ \A i \in 1..Len(nodes) :
              /\ g.title[g.nodes[i]] = title[nodes[i]]
              /\ g.code[g.nodes[i]] = code[nodes[i]]
              /\ g.pos[g.nodes[i]] = pos[nodes[i]]
              /\ g.viewer[g.nodes[i]] = viewer[nodes[i]]
        /\ Cardinality(made) = Cardinality(Registered)
        /\ \A i, j \in 1..Len(nodes), so, eo \in BOOLEAN :
              Cardinality(Joining(g.conns, made, g.nodes[i], so, g.nodes[j], eo))
                  = Cardinality(Joining(conns, Registered, nodes[i], so, nodes[j], eo))

\* The ids of the node records of a file, and the place of the record with
\* the id `id`.
RecordIds(data) == {data.nodes[i].id : i \in 1..Len(data.nodes)}
RecordOf(data, id) == CHOOSE i \in 1..Len(data.nodes) : data.nodes[i].id = id

\* A connection record whose node ids both belong to node records.
Resolves(data, rec) ==
    rec.start_node_id \in RecordIds(data) /\ rec.end_node_id \in RecordIds(data)

\* A file without malformed record: every node record has its fields, every
\* connection record has its keys and, when its ids resolve, port indices
\* within range.
WellFormed(data) ==
    /\ \A i \in 1..Len(data.nodes) : data.nodes[i].fault = "none"
    /\ \A i \in 1..Len(data.connections) :
          /\ data.connections[i].fault = "none"
          /\ Resolves(data, data.connections[i]) =>
                /\ data.connections[i].start_port_index = 0
                /\ data.connections[i].end_port_index = 0

\* The records of the file with the same ends as rec.
SameEnds(data, rec) ==
    {i \in 1..Len(data.connections) :
        /\ data.connections[i].start_node_id = rec.start_node_id
        /\ data.connections[i].start_port_is_output = rec.start_port_is_output
        /\ data.connections[i].end_node_id = rec.end_node_id
        /\ data.connections[i].end_port_is_output = rec.end_port_is_output}

\* A step that opens a file: load_graph or merge_graph_from_file.
Opens == fileOps' # fileOps

\* The number of nodes listed before the nodes of the opened file.
Kept == IF last' \in {"merge_graph", "merge_failed"} THEN Len(nodes) ELSE 0

\* C18: when a file without malformed record is loaded or merged, no error
\* is reported, every node record yields a node, every connection record
\* whose ids resolve yields a connection between the nodes of its records,
\* and a record with an id of no node record yields none.
C18_AbsentIdSkipped ==
    [][(Opens /\ WellFormed(opened')) =>
        LET data == opened'
            resolving == {i \in 1..Len(data.connections) : Resolves(data, data.connections[i])}
            before == IF Kept = 0 THEN 0 ELSE Cardinality(Registered)
        IN  /\ last' \in {"load_graph", "merge_graph"}
            /\ Len(nodes') = Kept + Len(data.nodes)
            /\ Cardinality(Registered') = before + Cardinality(resolving)
            /\ \A i \in resolving :
                  LET rec == data.connections[i]
                  IN  Cardinality(Joining(conns', Registered',
                                          nodes'[Kept + RecordOf(data, rec.start_node_id)],
                                          rec.start_port_is_output,
                                          nodes'[Kept + RecordOf(data, rec.end_node_id)],
                                          rec.end_port_is_output))
                          = Cardinality(SameEnds(data, rec))]_vars

\* A file with a record of an absent id and a record that resolves was
\* opened, and the graph holds a connection.
C18_Witness ==
    /\ last \in {"load_graph", "merge_graph"}
    /\ WellFormed(opened)
    /\ \E i, j \in 1..Len(opened.connections) :
          /\ ~Resolves(opened, opened.connections[i])
          /\ Resolves(opened, opened.connections[j])
    /\ Registered # {}

\* A step of merge_graph_from_file.
Merges == Opens /\ last' \in {"merge_graph", "merge_failed"}

\* C19: a merge leaves every listed node at its place in the list with its
\* title, code, position, kind and result, and every connection of a listed
\* node's port with its ports and its place in the ports' collections; for a
\* file without malformed record it appends one node per node record at the
\* recorded position plus the offset; every connection it registers joins
\* two of the appended nodes.
C19_MergeAdditive ==
    [][Merges =>
        LET data == opened'
            old == Range(nodes)
            new == Range(nodes') \ old
        IN  /\ Len(nodes') >= Len(nodes)
            /\ SubSeq(nodes', 1, Len(nodes)) = nodes
            /\ \A n \in old :
                  /\ title'[n] = title[n] /\ code'[n] = code[n] /\ pos'[n] = pos[n]
                  /\ viewer'[n] = viewer[n] /\ result'[n] = result[n]
                  /\ portConns'[InputPort(n)] = portConns[InputPort(n)]
                  /\ portConns'[OutputPort(n)] = portConns[OutputPort(n)]
            /\ \A c \in Registered : conns'[c] = conns[c]
            /\ WellFormed(data) =>
                  /\ Len(nodes') = Len(nodes) + Len(data.nodes)
                  /\ \A i \in 1..Len(data.nodes) :
                        pos'[nodes'[Len(nodes) + i]]
                            = [org |-> data.nodes[i].pos_org,
                               x |-> data.nodes[i].pos_x + 50,
                               y |-> data.nodes[i].pos_y + 50]
            /\ \A c \in Registered' \ Registered :
                  conns'[c].start_port.node \in new /\ conns'[c].end_port.node \in new]_vars

\* A file was merged into a graph that had a result and a connection, and
\* the merge added a connection.
C19_Witness ==
    /\ last = "merge_graph"
    /\ result[nodes[1]] # None
    /\ \E c, d \in Registered :
          /\ conns[c].end_port.node \in {nodes[1], nodes[2]}
          /\ conns[d].end_port.node \notin {nodes[1], nodes[2]}

\* The well-formed node records of a file, and its well-formed connection
\* records whose ids are the ids of well-formed node records.
GoodNodeRecords(data) == {i \in 1..Len(data.nodes) : data.nodes[i].fault = "none"}
GoodConnRecords(data) ==
    {i \in 1..Len(data.connections) :
        /\ data.connections[i].fault = "none"
        /\ data.connections[i].start_port_index = 0
        /\ data.connections[i].end_port_index = 0
        /\ \E a, b \in GoodNodeRecords(data) :
              /\ data.nodes[a].id = data.connections[i].start_node_id
              /\ data.nodes[b].id = data.connections[i].end_node_id}

\* C20 as stated: a merge imports every well-formed node record and every
\* well-formed connection record between such nodes, whatever other records
\* the file holds.
C20_Claim ==
    [][Merges =>
        /\ Len(nodes') = Len(nodes) + Cardinality(GoodNodeRecords(opened'))
        /\ Cardinality(Registered') = Cardinality(Registered)
                                        + Cardinality(GoodConnRecords(opened'))]_vars

\* The place of a listed node in the node list, and the scan and the place
\* in the record of the evaluation of an evaluated node.
ListIndex(n) == CHOOSE i \in 1..Len(nodes) : nodes[i] = n
EvalIndex(n) == CHOOSE i \in 1..Len(evalSeq) : evalSeq[i].node = n
ScanOf(n) == evalSeq[EvalIndex(n)].scan

\* C21 as stated: every node on the other end of an input connection of an
\* evaluated node was evaluated in a strictly earlier scan.
C21_Original ==
    (PassDone /\ NoDangling) =>
        \A i \in 1..Len(evalSeq) :
            \A m \in Upstream(evalSeq[i].node) :
                m \in Evaluated /\ ScanOf(m) < evalSeq[i].scan

\* The node m was evaluated before the scan s reached the list place of n.
ReadyAt(m, n, s) ==
    /\ m \in Evaluated
    /\ \/ ScanOf(m) < s
       \/ ScanOf(m) = s /\ ListIndex(m) < ListIndex(n)

\* C21 amended: a node is evaluated in a scan only if every node on the other
\* end of its input connections was evaluated before the scan reached it, in
\* an earlier scan or earlier in the same scan; the evaluations are recorded
\* scan by scan and in node-list order within a scan; and a node is evaluated
\* in the first scan that finds it ready.
C21_ScanRule ==
    (PassDone /\ NoDangling) =>
        /\ \A i \in 1..Len(evalSeq) :
              /\ \A m \in Upstream(evalSeq[i].node) :
                    ReadyAt(m, evalSeq[i].node, evalSeq[i].scan)
              /\ evalSeq[i].scan > 1 =>
                    \E m \in Upstream(evalSeq[i].node) :
                        ~ReadyAt(m, evalSeq[i].node, evalSeq[i].scan - 1)
        /\ \A i, j \in 1..Len(evalSeq) :
              i < j => \/ evalSeq[i].scan < evalSeq[j].scan
                       \/ /\ evalSeq[i].scan = evalSeq[j].scan
                          /\ ListIndex(evalSeq[i].node) < ListIndex(evalSeq[j].node)

\* A pass in which one node was evaluated in the scan that evaluated the node
\* it takes its input from, and another node had to wait for a later scan.
C21_Witness ==
    /\ PassDone /\ NoDangling
    /\ \E i \in 1..Len(evalSeq) :
          \E m \in Upstream(evalSeq[i].node) :
              m \in Evaluated /\ ScanOf(m) = evalSeq[i].scan
    /\ \E i \in 1..Len(evalSeq) : evalSeq[i].scan >= 2

\* The scans of the pass that evaluated a node.
ProductiveScans == {evalSeq[i].scan : i \in 1..Len(evalSeq)}

\* C22: a pass ends after at most |nodes| + 1 scans; every scan before the
\* last evaluated a node; the last scan either completed the node list or
\* evaluated nothing; the nodes left over were not evaluated and have no
\* result; and the log ends with the summary.
C22_Terminates ==
    PassDone =>
        /\ scan <= Len(nodes) + 1
        /\ \A s \in 1..(scan - 1) : s \in ProductiveScans
        /\ IF Evaluated = Range(nodes)
           THEN scan > 0 => scan \in ProductiveScans
           ELSE scan \notin ProductiveScans
        /\ \A n \in Range(nodes) \ Evaluated : EvalIndexes(n) = {} /\ result[n] = None
        /\ log[Len(log)].kind = "summary"
        /\ \A i \in 1..(Len(log) - 1) : log[i].kind # "summary"

\* A pass that evaluated a node in its first scan, found nothing to evaluate
\* in its last scan and left a node unevaluated.
C22_Witness ==
    /\ PassDone
    /\ scan >= 2
    /\ Evaluated # {}
    /\ Range(nodes) \ Evaluated # {}
    /\ log[Len(log)].kind = "summary"

\* Results the nodes may hold from earlier passes.
PriorResults == {[n \in NodeIds |-> v] : v \in {None, Some(42)}}

\* A step in which execute_graph runs a pass.
RunsPass == pc = "idle" /\ pc' = "done"

\* C23: the evaluations and the log of a pass are those of a pass over the
\* same node list, connections and code started without results and display
\* texts, or with a result in every node, and within one scan the nodes are
\* evaluated in node-list order.
C23_Deterministic ==
    [][RunsPass =>
        /\ \A res \in PriorResults :
              LET other == PassFrom(res, [n \in NodeIds |-> None])
              IN  /\ other.evalSeq = evalSeq'
                  /\ other.log = log'
                  /\ \A n \in Range(nodes) : other.result[n] = result'[n]
        /\ \A i, j \in 1..Len(evalSeq') :
              (i < j /\ evalSeq'[i].scan = evalSeq'[j].scan)
                  => ListIndex(evalSeq'[i].node) < ListIndex(evalSeq'[j].node)]_vars

\* A second pass over a graph of three nodes that hold results of the first
\* pass; one scan of it evaluated two nodes and a node failed.
C23_Witness ==
    /\ PassDone
    /\ passes = 2
    /\ Len(nodes) = 3
    /\ Cardinality(hadResult) >= 2
    /\ \E i, j \in 1..Len(evalSeq) : i < j /\ evalSeq[i].scan = evalSeq[j].scan
    /\ \E i \in 1..Len(evalSeq) : evalSeq[i].caught

\* The rearrangements of the node list.
Rearrangements ==
    {ns \in [1..Len(nodes) -> Range(nodes)] : \A n \in Range(nodes) : \E i \in 1..Len(nodes) : ns[i] = n}

----------------------------------------------------------------------------
\* The order of the connections in a port's collection.

\* A port named by the position of its node in the node list ns (0 when it
\* is not listed) and its direction.
PortPlace(ns, p) ==
    IF p = NoPort \/ ~\E i \in 1..Len(ns) : ns[i] = p.node
    THEN <<0, p.is_output>>
    ELSE <<CHOOSE i \in 1..Len(ns) : ns[i] = p.node, p.is_output>>

\* port.connections as the sequence of the ports its connections join.
PortOrder(ns, cn, pcn, p) ==
    [k \in 1..Len(pcn[p]) |->
        [start |-> PortPlace(ns, cn[pcn[p][k]].start_port),
         end |-> PortPlace(ns, cn[pcn[p][k]].end_port)]]

\* Every connection of the graph is complete: no drag is pending, and each
\* connection held by a port joins two listed nodes and is held once by each
\* of its two ports.
Complete ==
    /\ temp_connection = 0
    /\ Intact
    /\ \A c \in Registered :
          /\ Occurrences(portConns[conns[c].start_port], c) = 1
          /\ Occurrences(portConns[conns[c].end_port], c) = 1

\* C25 as stated: saving and loading a graph whose connections are complete
\* gives every port the same connections in the same order.
C25_Claim ==
    LET g == RoundTrip
    IN  (Complete /\ ~g.raised /\ Len(g.nodes) = Len(nodes)) =>
            \A i \in 1..Len(nodes), o \in BOOLEAN :
                PortOrder(g.nodes, g.conns, g.portConns,
                          [node |-> g.nodes[i], is_output |-> o])
                    = PortOrder(nodes, conns, portConns,
                                [node |-> nodes[i], is_output |-> o])

\* C26 as stated: a load that fails while decoding leaves the node list, the
\* nodes and all connections as they were before the load.
C26_Claim ==
    [][(Opens /\ last' = "load_failed")
          => UNCHANGED <<nodes, title, code, viewer, pos, conns, portConns,
                         sceneConns>>]_vars

\* C27 as stated: when a pass has ended, the display text of every listed
\* viewer is the text of its result: "Data: v" for the result v, and no data
\* text for the result None.
C27_Claim ==
    PassDone =>
        \A n \in Range(nodes) :
            viewer[n] =>
                IF result[n] # None
                THEN display[n] = DisplayData(result[n][1])
                ELSE display[n] \in {DisplayNone, DisplayYet}

\* C28 as stated: a triggering of execute_graph that leaves the Python path
\* empty is cancelled: it evaluates no node and changes no result.
C28_Claim ==
    [][(pc = "idle" /\ pc' # "idle" /\ ~python_path')
          => (pc' = "cancelled" /\ evalSeq' = <<>> /\ result' = result)]_vars

----------------------------------------------------------------------------
\* Copy followed by paste.

\* The selections the clipboard can have been copied from.
CopiedFrom ==
    {sel \in Selections :
        sel # <<>> /\ copied_nodes = [i \in 1..Len(sel) |-> node_data(sel, i)]}

\* C29 as stated: the paste that follows the copy appends one node per selected node with its
\* title, code and kind; for every two selected nodes and port directions it
\* creates as many connections between the new nodes as there are between
\* the selected ones; every new connection joins new nodes; the nodes and
\* connections that existed are unchanged.
C29_Claim ==
    [][(last = "copy" /\ copied_nodes # <<>> /\ last' = "paste") =>
        \A sel \in CopiedFrom :
            LET old == Len(nodes)
                made == Registered' \ Registered
            IN  /\ Len(nodes') = old + Len(sel)
                /\ SubSeq(nodes', 1, old) = nodes
                /\ \A i \in 1..Len(sel) :
                      /\ title'[nodes'[old + i]] = title[sel[i]]
                      /\ code'[nodes'[old + i]] = code[sel[i]]
                      /\ viewer'[nodes'[old + i]] = viewer[sel[i]]
                /\ \A i, j \in 1..Len(sel), so, eo \in BOOLEAN :
                      Cardinality(Joining(conns', made, nodes'[old + i], so,
                                          nodes'[old + j], eo))
                          = Cardinality(Joining(conns, Registered, sel[i], so, sel[j], eo))
                /\ \A c \in made :
                      /\ conns'[c].start_port.node \notin Range(nodes)
                      /\ conns'[c].end_port.node \notin Range(nodes)
                /\ \A n \in Range(nodes) :
                      /\ title'[n] = title[n] /\ code'[n] = code[n]
                      /\ viewer'[n] = viewer[n] /\ pos'[n] = pos[n]
                      /\ result'[n] = result[n]
                      /\ portConns'[InputPort(n)] = portConns[InputPort(n)]
                      /\ portConns'[OutputPort(n)] = portConns[OutputPort(n)]
                /\ \A c \in Registered : conns'[c] = conns[c]]_vars

----------------------------------------------------------------------------
\* The auto-run timer.

\* C30: the editor starts with the timer stopped and execute_interval =
\* 1000 ms; in every state the timer is active exactly when Auto-Execute is
\* checked, an active timer has the period execute_interval, and
\* execute_interval is within 100..3600000 ms; a step of set_execute_interval
\* taken while Auto-Execute is unchecked leaves the timer stopped.
C30_TimerFollowsToggle ==
    /\ execute_interval = 1000 /\ ~timer_active /\ ~auto_execute
    /\ [](/\ timer_active <=> auto_execute
          /\ timer_active => timer_interval = execute_interval
          /\ execute_interval \in (MinTenths * 100)..(MaxTenths * 100))
    /\ [][(last' = "set_execute_interval" /\ ~auto_execute) => ~timer_active']_vars

\* The interval was changed to 32.3 s while Auto-Execute was checked: the
\* timer runs with the new period, 32299 ms.
C30_Witness ==
    /\ last = "set_execute_interval"
    /\ auto_execute /\ timer_active
    /\ execute_interval = 32299
    /\ timer_interval = 32299

====
